---- MODULE Spec2Model ----
(***************************************************************************)
(* Model of llm-tool's staged-file-edit workflow: the StagingArea of       *)
(* internal/fileutil/fileutil.go and the `edit` command (editCmd.RunE)     *)
(* that drives it.                                                         *)
(* A third specification, SpecG, is the Gemini client's persisted chat     *)
(* history (internal/llm/gemini.go, StreamResponse).                       *)
(*                                                                         *)
(* Paths are sequences of components (<<"a","x.go">> is a/x.go), so that   *)
(* filepath.Base, filepath.Dir and filepath.Join are computed, not looked  *)
(* up.  The disk is a record: `files` maps a path to its content (NoFile   *)
(* when there is none) and `dirs` is the set of directories that exist.    *)
(***************************************************************************)
EXTENDS Naturals, Sequences, FiniteSets, TLC

\* ------------------------------------------------------------------ bounds
\* Longest list of target files of one `edit` run.
MaxFiles == 3
\* Most entries the StagingArea harness (SpecSA) stages.
MaxStaged == 2
\* Most StreamResponse calls of the Gemini client that complete (SpecG).
MaxCalls == 12

\* ------------------------------------------------------------------- paths
Stdin == <<"-">>
Base(p) == <<p[Len(p)]>>
Dir(p) == IF Len(p) = 1 THEN <<".">> ELSE SubSeq(p, 1, Len(p) - 1)
Join(d, p) == d \o p
Under(p, d) == Len(p) > Len(d) /\ SubSeq(p, 1, Len(d)) = d

\* The directory os.MkdirTemp("", "llm-tool-staging-*") returns.
StagingDir == <<"tmp", "llm-tool-staging">>

\* The target files a run may name, two of them with the same basename.
Targets == {<<"a", "x.go">>, <<"b", "x.go">>, <<"y.go">>, Stdin}
\* The values of --output: "" (not given) or a directory.
OutputDirs == {<< >>, <<"out">>}

\* outputFilename of editCmd.RunE for a target, from the value of --output.
OutputFilename(filename, outDir, isNew) ==
    LET redirected == IF outDir # << >> THEN Join(outDir, Base(filename)) ELSE filename
    IN  IF isNew /\ redirected = Stdin THEN <<"output.txt">> ELSE redirected

\* Every path ApplyChanges may be handed, and every scratch path under StagingDir.
OrigPaths == {OutputFilename(t, o, n) : t \in Targets, o \in OutputDirs, n \in BOOLEAN}
StagedPaths == {Join(StagingDir, Base(p)) : p \in OrigPaths}
Paths == OrigPaths \cup StagedPaths \cup {Stdin}
Dirs == {Dir(p) : p \in Paths}

\* ----------------------------------------------------------------- content
NoFile == "<no such file>"
\* What a write that failed after the file was opened (O_TRUNC) leaves behind.
Truncated == ""
\* What the provider returns for a file.
Generated == {"g1", "g2"}
\* What the target files and the files of the output directory hold at the start.
OldContent == "old"
PrevContent == "prev"

\* I/O outcomes of a mkdir-then-write pair: no fault, MkdirAll fails,
\* WriteFile fails opening the file, WriteFile fails after truncating it.
Faults == {"none", "mkdir", "open", "io"}

\* os.WriteFile(path, content) under a fault, after MkdirAll(dir) succeeded.
WriteFile(d, path, content, fault) ==
    [files |-> IF fault = "open" THEN d.files
               ELSE [d.files EXCEPT ![path] = IF fault = "io" THEN Truncated ELSE content],
     dirs  |-> d.dirs]

MkdirAll(d, dir) == [d EXCEPT !.dirs = @ \cup {dir}]

\* os.MkdirAll(dir) then os.WriteFile(path, content): the disk afterwards.
MkdirThenWrite(d, dir, path, content, fault) ==
    IF fault = "mkdir" THEN d ELSE WriteFile(MkdirAll(d, dir), path, content, fault)

\* ------------------------------------------------------------- StagingArea
StagedFile(originalPath, stagedPath, content, isNew) ==
    [OriginalPath |-> originalPath, StagedPath |-> stagedPath,
     Content |-> content, IsNew |-> isNew]

\* NewStagingArea: the disk once os.MkdirTemp has created the directory.
NewStagingArea(d) == MkdirAll(d, StagingDir)

\* Mutant of StageFile: the entry is appended before the scratch file is
\* written, so a failed write leaves it in the list.
StageFile_AppendsFirst(d, fs, originalPath, content, isNew, fault) ==
    LET stagedPath == Join(StagingDir, Base(originalPath))
    IN  [disk |-> MkdirThenWrite(d, Dir(stagedPath), stagedPath, content, fault),
         Files |-> Append(fs, StagedFile(originalPath, stagedPath, content, isNew)),
         err |-> fault # "none"]

\* Mutant of StageFile: the entry is put at the head of the list.
StageFile_Prepends(d, fs, originalPath, content, isNew, fault) ==
    LET stagedPath == Join(StagingDir, Base(originalPath))
        d2 == MkdirThenWrite(d, Dir(stagedPath), stagedPath, content, fault)
    IN  IF fault # "none"
        THEN [disk |-> d2, Files |-> fs, err |-> TRUE]
        ELSE [disk |-> d2,
              Files |-> <<StagedFile(originalPath, stagedPath, content, isNew)>> \o fs,
              err |-> FALSE]

\* Mutant of StageFile: a scratch file that is already there is kept as it is.
StageFile_KeepsExisting(d, fs, originalPath, content, isNew, fault) ==
    LET stagedPath == Join(StagingDir, Base(originalPath))
        d2 == IF d.files[stagedPath] # NoFile THEN d
              ELSE MkdirThenWrite(d, Dir(stagedPath), stagedPath, content, fault)
    IN  IF fault # "none"
        THEN [disk |-> d2, Files |-> fs, err |-> TRUE]
        ELSE [disk |-> d2,
              Files |-> Append(fs, StagedFile(originalPath, stagedPath, content, isNew)),
              err |-> FALSE]

\* Mutant of StageFile: an entry already staged for the same original path is
\* replaced where it stands instead of a second one being appended.
StageFile_Overwrites(d, fs, originalPath, content, isNew, fault) ==
    LET stagedPath == Join(StagingDir, Base(originalPath))
        d2 == MkdirThenWrite(d, Dir(stagedPath), stagedPath, content, fault)
        e  == StagedFile(originalPath, stagedPath, content, isNew)
    IN  IF fault # "none"
        THEN [disk |-> d2, Files |-> fs, err |-> TRUE]
        ELSE [disk |-> d2,
              Files |-> IF \E i \in 1..Len(fs) : fs[i].OriginalPath = originalPath
                        THEN [i \in 1..Len(fs) |->
                                 IF fs[i].OriginalPath = originalPath THEN e ELSE fs[i]]
                        ELSE Append(fs, e),
              err |-> FALSE]

\* StageFile(originalPath, content, isNew) on disk d and entry list fs.
StageFile(d, fs, originalPath, content, isNew, fault) ==
    LET stagedPath == Join(StagingDir, Base(originalPath))
        d2 == MkdirThenWrite(d, Dir(stagedPath), stagedPath, content, fault)
    IN  IF fault # "none"
        THEN [disk |-> d2, Files |-> fs, err |-> TRUE]
        ELSE [disk |-> d2,
              Files |-> Append(fs, StagedFile(originalPath, stagedPath, content, isNew)),
              err |-> FALSE]

\* Mutant of Cleanup: os.Remove in place of os.RemoveAll, which removes the
\* directory only when it is empty.
Cleanup_RemoveIfEmpty(d) ==
    IF \E p \in DOMAIN d.files : Under(p, StagingDir) /\ d.files[p] # NoFile
    THEN d
    ELSE [files |-> d.files, dirs |-> d.dirs \ {StagingDir}]

\* Cleanup: os.RemoveAll(sa.StagingDir).
Cleanup(d) ==
    [files |-> [p \in DOMAIN d.files |->
                   IF Under(p, StagingDir) THEN NoFile ELSE d.files[p]],
     dirs  |-> {x \in d.dirs : x # StagingDir /\ ~Under(x, StagingDir)}]

\* What exec.LookPath("diff") finds: no diff command, one that knows
\* --color=always, or one that rejects that option.
DiffTools == {"none", "color", "plain"}

\* Exit status of `diff [--color=always] -u a b`: 0 same, 1 differ, 2 trouble.
diffExit(d, a, b, withColor, tool) ==
    IF withColor /\ tool = "plain" THEN 2
    ELSE IF d.files[a] = NoFile \/ d.files[b] = NoFile THEN 2
    ELSE IF d.files[a] = d.files[b] THEN 0
    ELSE 1

\* One rendering of ShowDiff: what was printed for `path`, and which paths
\* were read from the disk to print it.
Rendering(kind, path, reads, minus, plus) ==
    [kind |-> kind, path |-> path, reads |-> reads, minus |-> minus, plus |-> plus]

\* manualDiff(originalPath, stagedPath)
manualDiff(d, originalPath, stagedPath) ==
    IF d.files[originalPath] = NoFile
    THEN [out |-> Rendering("failed", originalPath, {originalPath}, NoFile, NoFile),
          err |-> TRUE]
    ELSE IF d.files[stagedPath] = NoFile
    THEN [out |-> Rendering("failed", originalPath, {originalPath, stagedPath},
                            NoFile, NoFile),
          err |-> TRUE]
    ELSE [out |-> Rendering("manual", originalPath, {originalPath, stagedPath},
                            d.files[originalPath], d.files[stagedPath]),
          err |-> FALSE]

\* Mutant of displayDiff: a coloured attempt that fails is not retried
\* without colour.
displayDiff_NoRetry(d, originalPath, stagedPath, tool) ==
    IF tool # "none"
    THEN LET first == diffExit(d, originalPath, stagedPath, TRUE, tool)
         IN  IF first # 0 /\ first # 1
             THEN [out |-> Rendering("failed", originalPath,
                                     {originalPath, stagedPath}, NoFile, NoFile),
                   err |-> TRUE]
             ELSE [out |-> Rendering("diff", originalPath, {originalPath, stagedPath},
                                     d.files[originalPath], d.files[stagedPath]),
                   err |-> FALSE]
    ELSE manualDiff(d, originalPath, stagedPath)

\* displayDiff(originalPath, stagedPath)
displayDiff(d, originalPath, stagedPath, tool) ==
    IF tool # "none"
    THEN LET first  == diffExit(d, originalPath, stagedPath, TRUE, tool)
             second == diffExit(d, originalPath, stagedPath, FALSE, tool)
             shownDiff == Rendering("diff", originalPath, {originalPath, stagedPath},
                                    d.files[originalPath], d.files[stagedPath])
         IN  IF first # 0 /\ first # 1
             THEN IF second # 0 /\ second # 1
                  THEN [out |-> Rendering("failed", originalPath,
                                          {originalPath, stagedPath}, NoFile, NoFile),
                        err |-> TRUE]
                  ELSE [out |-> shownDiff, err |-> FALSE]
             ELSE [out |-> shownDiff, err |-> FALSE]
    ELSE manualDiff(d, originalPath, stagedPath)

\* The loop of ShowDiff from entry i on, `out` being what was rendered so far.
RECURSIVE ShowDiffFrom(_, _, _, _, _)
ShowDiffFrom(d, fs, i, tool, out) ==
    IF i > Len(fs) THEN [out |-> out, err |-> FALSE]
    ELSE LET file == fs[i]
         IN  IF file.IsNew
             THEN ShowDiffFrom(d, fs, i + 1, tool,
                      Append(out, Rendering("new", file.OriginalPath, {},
                                            NoFile, file.Content)))
             ELSE LET r == displayDiff(d, file.OriginalPath, file.StagedPath, tool)
                  IN  IF r.err THEN [out |-> Append(out, r.out), err |-> TRUE]
                      ELSE ShowDiffFrom(d, fs, i + 1, tool, Append(out, r.out))

\* Mutants of ShowDiff: one walks the entries last to first, the other diffs
\* every entry against its original, new or not.
ShowDiff_Reversed(d, fs, tool) ==
    ShowDiffFrom(d, [i \in 1..Len(fs) |-> fs[Len(fs) + 1 - i]], 1, tool, << >>)
ShowDiff_AlwaysDiffs(d, fs, tool) ==
    ShowDiffFrom(d, [i \in 1..Len(fs) |-> [fs[i] EXCEPT !.IsNew = FALSE]], 1, tool, << >>)

\* ShowDiff on disk d and entry list fs.
ShowDiff(d, fs, tool) == ShowDiffFrom(d, fs, 1, tool, << >>)

\* The loop of ApplyChanges from entry i on; the I/O of entry failAt meets
\* `fault` (failAt = 0: no entry does).  `applied` lists the paths written.
RECURSIVE ApplyFrom(_, _, _, _, _, _)
ApplyFrom(d, fs, i, failAt, fault, applied) ==
    IF i > Len(fs) THEN [disk |-> d, err |-> FALSE, applied |-> applied]
    ELSE LET file == fs[i]
             flt  == IF i = failAt THEN fault ELSE "none"
             d2   == MkdirThenWrite(d, Dir(file.OriginalPath), file.OriginalPath,
                                    file.Content, flt)
         IN  IF flt # "none"
             THEN [disk |-> d2, err |-> TRUE, applied |-> applied]
             ELSE ApplyFrom(d2, fs, i + 1, failAt, fault,
                            Append(applied, file.OriginalPath))

\* Mutant of ApplyChanges: a failed entry is skipped and the loop goes on to
\* the entries after it; the error is reported at the end.
RECURSIVE ApplyFrom_KeepsGoing(_, _, _, _, _, _)
ApplyFrom_KeepsGoing(d, fs, i, failAt, fault, applied) ==
    IF i > Len(fs)
    THEN [disk |-> d, err |-> failAt \in 1..Len(fs), applied |-> applied]
    ELSE LET file == fs[i]
             flt  == IF i = failAt THEN fault ELSE "none"
             d2   == MkdirThenWrite(d, Dir(file.OriginalPath), file.OriginalPath,
                                    file.Content, flt)
         IN  ApplyFrom_KeepsGoing(d2, fs, i + 1, failAt, fault,
                 IF flt # "none" THEN applied ELSE Append(applied, file.OriginalPath))
ApplyChanges_KeepsGoing(d, fs, failAt, fault) ==
    ApplyFrom_KeepsGoing(d, fs, 1, failAt, fault, << >>)

\* Mutant of ApplyChanges: the loop starts at the second entry.
ApplyChanges_SkipsFirst(d, fs, failAt, fault) ==
    ApplyFrom(d, fs, 2, failAt, fault, << >>)

\* Mutant of ApplyChanges: each original is written from its scratch file
\* instead of the entry's Content.
RECURSIVE ApplyFrom_FromScratch(_, _, _, _, _, _)
ApplyFrom_FromScratch(d, fs, i, failAt, fault, applied) ==
    IF i > Len(fs) THEN [disk |-> d, err |-> FALSE, applied |-> applied]
    ELSE LET file == fs[i]
             flt  == IF i = failAt THEN fault ELSE "none"
             d2   == MkdirThenWrite(d, Dir(file.OriginalPath), file.OriginalPath,
                                    d.files[file.StagedPath], flt)
         IN  IF flt # "none"
             THEN [disk |-> d2, err |-> TRUE, applied |-> applied]
             ELSE ApplyFrom_FromScratch(d2, fs, i + 1, failAt, fault,
                                        Append(applied, file.OriginalPath))
ApplyChanges_FromScratch(d, fs, failAt, fault) ==
    ApplyFrom_FromScratch(d, fs, 1, failAt, fault, << >>)

\* Mutant of ApplyChanges: the entries are written last to first.
ApplyChanges_Reversed(d, fs, failAt, fault) ==
    ApplyFrom(d, [i \in 1..Len(fs) |-> fs[Len(fs) + 1 - i]], 1, failAt, fault, << >>)

\* Mutant of ApplyChanges: only the first entry is written.
ApplyChanges_OnlyFirst(d, fs, failAt, fault) ==
    ApplyFrom(d, SubSeq(fs, 1, 1), 1, failAt, fault, << >>)

\* The error ApplyChanges returns when the I/O of entry failAt meets `fault`,
\* by what its message holds: the text, the paths it names and the counts it
\* names ("failed to create directory <dir>: ..." or "failed to write file
\* <path>: ..."; RunE wraps it in "failed to apply changes: ").
ApplyError(fs, failAt, fault) ==
    IF fault = "mkdir"
    THEN [msg |-> "failed to create directory",
          paths |-> {Dir(fs[failAt].OriginalPath)}, counts |-> {}]
    ELSE [msg |-> "failed to write file",
          paths |-> {fs[failAt].OriginalPath}, counts |-> {}]

\* ApplyChanges on disk d and entry list fs.
ApplyChanges(d, fs, failAt, fault) == ApplyFrom(d, fs, 1, failAt, fault, << >>)

\* ------------------------------------------------------------ edit command
\* What a pipe on standard input holds.
StdinContent == "piped"

\* ReadFileContent(filename); readFault: the file is there but cannot be read.
ReadFileContent(d, filename, readFault) ==
    IF readFault THEN [content |-> "", err |-> TRUE]
    ELSE IF filename = Stdin THEN [content |-> StdinContent, err |-> FALSE]
    ELSE IF d.files[filename] = NoFile THEN [content |-> "", err |-> TRUE]
    ELSE [content |-> d.files[filename], err |-> FALSE]

\* fileExists(filename)
fileExists(d, filename) ==
    IF filename = Stdin THEN FALSE ELSE d.files[filename] # NoFile

\* The lines the user may type at the prompt, as their space-separated words.
Lines == {<< >>, <<"y">>, <<"Y">>, <<"n">>, <<"yes">>, <<"y", "n">>}
\* fmt.Scanln(&response): the first word of the line, "" for an empty line.
Scanln(line) == IF line = << >> THEN "" ELSE line[1]
\* Mutants of Rejected: one takes any word but "n" for a yes, the other also
\* takes "yes".
Rejected_OnlyN(resp) == resp = "n"
Rejected_AlsoYes(resp) == resp # "y" /\ resp # "Y" /\ resp # "yes"
\* response != "y" && response != "Y"
Rejected(resp) == resp # "y" /\ resp # "Y"

\* ----------------------------------------------- Gemini client: chat history
\* if len(history.Messages) > 20: the most messages the saved history keeps.
HistoryLimit == 20

ChatHistoryContent(role, parts) == [Role |-> role, Parts |-> parts]

\* gemini_chat_history.json: whether the file is there, and its data as the
\* JSON documents it holds (none when a failed write left it empty).
NoHistoryFile == [exists |-> FALSE, data |-> << >>]
EmptiedFile == [exists |-> TRUE, data |-> << >>]
\* json.Marshal(history) and json.Unmarshal(data, &history), of the messages
\* (the model name and the timestamp of ChatHistory play no part).
Marshal(messages) == <<[messages |-> messages]>>
Unmarshal(data) ==
    IF data = << >> THEN [Messages |-> << >>, err |-> TRUE]
    ELSE [Messages |-> data[1].messages, err |-> FALSE]

\* loadChatHistory(); readFault: the file is there but os.ReadFile fails.
loadChatHistory(file, readFault) ==
    IF ~file.exists THEN [Messages |-> << >>, err |-> FALSE]
    ELSE IF readFault THEN [Messages |-> << >>, err |-> TRUE]
    ELSE Unmarshal(file.data)

\* The outcomes of os.WriteFile on the history file: written, not opened,
\* truncated and then failed.
HistoryFaults == {"none", "open", "io"}

\* saveChatHistory(history): the file afterwards, and whether it failed.
saveChatHistory(file, messages, fault) ==
    IF fault = "open" THEN [file |-> file, err |-> TRUE]
    ELSE IF fault = "io" THEN [file |-> EmptiedFile, err |-> TRUE]
    ELSE [file |-> [exists |-> TRUE, data |-> Marshal(messages)], err |-> FALSE]

\* How the stream of a call ends: io.EOF, the "no more items in iterator"
\* error (taken as the end), or another receive error.
RecvOutcomes == {"EOF", "no more items", "error"}

\* Mutant of StreamResponse: the limit keeps the first HistoryLimit messages.
StreamResponse_KeepsOldest(file, prompt, recv, readFault, saveFault) ==
    LET loaded  == loadChatHistory(file, readFault)
        history == IF loaded.err THEN << >> ELSE loaded.Messages
        all     == history \o <<ChatHistoryContent("user", <<prompt>>),
                                ChatHistoryContent("model", <<prompt>>)>>
        limited == IF Len(all) > HistoryLimit THEN SubSeq(all, 1, HistoryLimit) ELSE all
        saved   == saveChatHistory(file, limited, saveFault)
    IN  IF recv = "error"
        THEN [file |-> file, err |-> TRUE, loadErr |-> loaded.err, saveErr |-> FALSE]
        ELSE [file |-> saved.file, err |-> FALSE, loadErr |-> loaded.err,
              saveErr |-> saved.err]

\* StreamResponse(ctx, prompt, model) on the history file `file`.  The text
\* the model streams back for prompt k is tagged k, like the prompt.
StreamResponse(file, prompt, recv, readFault, saveFault) ==
    LET loaded  == loadChatHistory(file, readFault)
        history == IF loaded.err THEN << >> ELSE loaded.Messages
        all     == history \o <<ChatHistoryContent("user", <<prompt>>),
                                ChatHistoryContent("model", <<prompt>>)>>
        limited == IF Len(all) > HistoryLimit
                   THEN SubSeq(all, Len(all) - HistoryLimit + 1, Len(all))
                   ELSE all
        saved   == saveChatHistory(file, limited, saveFault)
    IN  IF recv = "error"
        THEN [file |-> file, err |-> TRUE, loadErr |-> loaded.err, saveErr |-> FALSE]
        ELSE [file |-> saved.file, err |-> FALSE, loadErr |-> loaded.err,
              saveErr |-> saved.err]

VARIABLES
    disk,              \* the filesystem: [files, dirs]
    disk0,             \* the filesystem when the run started (history)
    Files,             \* sa.Files, the staged entries in order
    files,             \* the target files of the run (args[1:] or ["-"])
    outputDir,         \* --output
    applyChanges,      \* --yes
    pc,                \* where editCmd.RunE is
    idx,               \* index into files of the target being processed
    content,           \* content read for the current target
    refactoredContent, \* what the provider returned for the current target
    response,          \* what Scanln stored at the prompt
    result,            \* "running", then what RunE returned: "ok" or "err"
    ops,               \* the calls made so far, in order (history)
    shown,             \* what the last ShowDiff rendered
    applied,           \* the paths the last ApplyChanges wrote
    historyFile,       \* what gemini_chat_history.json holds (Gemini client)
    completed,         \* how many StreamResponse calls have completed (history)
    lastCall           \* how the last StreamResponse call went (history)

\* The variables of the edit command and the StagingArea, and those of the
\* Gemini client's chat history.
editVars == <<disk, disk0, Files, files, outputDir, applyChanges, pc, idx, content,
              refactoredContent, response, result, ops, shown, applied>>
geminiVars == <<historyFile, completed, lastCall>>
vars == <<editVars, geminiVars>>

\* No StreamResponse call was made.
NoCall == [kind |-> "none", loadErr |-> FALSE, saveFault |-> "none"]
\* The Gemini client is not in use: no history file, no call.
NoGemini ==
    /\ historyFile = NoHistoryFile
    /\ completed = 0
    /\ lastCall = NoCall

\* One call of the run: its name, whether it returned without error, and the
\* index of the target it was made for (0 when it is for no single target).
Op(op, ok, k) == [op |-> op, ok |-> ok, k |-> k]

\* The directories of the files a disk holds, with "." and the temp directory.
DirsOf(fm) == {Dir(p) : p \in {q \in DOMAIN fm : fm[q] # NoFile}} \cup {<<".">>, <<"tmp">>}

\* The disks a run may start on: the target files are all there, or all but
\* a/x.go; the files of the output directory are all there or all missing.
InitDisks ==
    LET real == Targets \ {Stdin}
        outs == {p \in OrigPaths : Under(p, <<"out">>)}
        fm(present, outsThere) ==
            [p \in Paths |-> IF p \in present THEN OldContent
                             ELSE IF p \in outs /\ outsThere THEN PrevContent
                             ELSE NoFile]
    IN  {[files |-> fm(present, outsThere), dirs |-> DirsOf(fm(present, outsThere))] :
           present \in {real, real \ {<<"a", "x.go">>}}, outsThere \in BOOLEAN}

\* The target lists of a run: one to MaxFiles targets, repetitions allowed.
FileLists == UNION {[1..n -> Targets] : n \in 1..MaxFiles}

Init ==
    /\ disk0 \in InitDisks
    /\ NoGemini
    /\ disk = disk0
    /\ Files = << >>
    /\ files \in FileLists
    /\ outputDir \in OutputDirs
    /\ outputDir = << >> => disk0.files[<<"out", "y.go">>] = NoFile
    /\ applyChanges \in BOOLEAN
    /\ pc = "new"
    /\ idx = 0
    /\ content = ""
    /\ refactoredContent = ""
    /\ response = ""
    /\ result = "running"
    /\ ops = << >>
    /\ shown = << >>
    /\ applied = << >>

\* Mutant of Return: the Cleanup is not deferred, so an early return skips it.
Return_NoCleanup(d, op, res) ==
    /\ disk' = d
    /\ ops' = Append(ops, op)
    /\ result' = res
    /\ pc' = "done"

\* RunE returns `res` from disk d after the call `op`: the deferred
\* stagingArea.Cleanup() runs as it returns.
Return(d, op, res) ==
    /\ disk' = Cleanup(d)
    /\ ops' = ops \o <<op, Op("Cleanup", TRUE, 0)>>
    /\ result' = res
    /\ pc' = "done"

\* Mutant of CreateStagingArea: the Cleanup is deferred before the error of
\* NewStagingArea is looked at, so it runs when there is no staging area.
CreateStagingArea_DefersFirst ==
    /\ pc = "new"
    /\ \E ok \in BOOLEAN :
         IF ok
         THEN /\ disk' = NewStagingArea(disk)
              /\ ops' = Append(ops, Op("NewStagingArea", TRUE, 0))
              /\ pc' = "read"
              /\ idx' = 1
              /\ result' = result
         ELSE /\ Return(disk, Op("NewStagingArea", FALSE, 0), "err")
              /\ idx' = idx
    /\ UNCHANGED <<geminiVars, disk0, Files, files, outputDir, applyChanges, content,
                   refactoredContent, response, shown, applied>>

\* stagingArea, err := fileutil.NewStagingArea(); if err != nil { return err }
CreateStagingArea ==
    /\ pc = "new"
    /\ \E ok \in BOOLEAN :
         IF ok
         THEN /\ disk' = NewStagingArea(disk)
              /\ ops' = Append(ops, Op("NewStagingArea", TRUE, 0))
              /\ pc' = "read"
              /\ idx' = 1
              /\ result' = result
         ELSE /\ disk' = disk
              /\ ops' = Append(ops, Op("NewStagingArea", FALSE, 0))
              /\ pc' = "done"
              /\ idx' = idx
              /\ result' = "err"
    /\ UNCHANGED <<geminiVars, disk0, Files, files, outputDir, applyChanges, content,
                   refactoredContent, response, shown, applied>>

\* Mutant of ReadFile: a target that cannot be read is reported and the loop
\* goes on with empty content.
ReadFile_Continues ==
    /\ pc = "read"
    /\ \E readFault \in BOOLEAN :
         LET r == ReadFileContent(disk, files[idx], readFault)
         IN  /\ content' = r.content
             /\ ops' = Append(ops, Op("ReadFileContent", ~r.err, idx))
             /\ pc' = "refactor"
    /\ UNCHANGED <<geminiVars, disk, disk0, Files, files, outputDir, applyChanges, idx,
                   refactoredContent, response, result, shown, applied>>

\* content, err := fileutil.ReadFileContent(filename)
ReadFile ==
    /\ pc = "read"
    /\ \E readFault \in BOOLEAN :
         LET r == ReadFileContent(disk, files[idx], readFault)
         IN  IF r.err
             THEN /\ Return(disk, Op("ReadFileContent", FALSE, idx), "err")
                  /\ content' = content
             ELSE /\ content' = r.content
                  /\ ops' = Append(ops, Op("ReadFileContent", TRUE, idx))
                  /\ pc' = "refactor"
                  /\ UNCHANGED <<disk, result>>
    /\ UNCHANGED <<geminiVars, disk0, Files, files, outputDir, applyChanges, idx,
                   refactoredContent, response, shown, applied>>

\* Mutant of RefactorFile: when the provider call fails, what it returned so
\* far is staged and the loop goes on.
RefactorFile_StagesPartial ==
    /\ pc = "refactor"
    /\ \/ \E g \in Generated :
            /\ refactoredContent' = g
            /\ ops' = Append(ops, Op("RefactorFile", TRUE, idx))
       \/ /\ refactoredContent' = Truncated
          /\ ops' = Append(ops, Op("RefactorFile", FALSE, idx))
    /\ pc' = "stage"
    /\ UNCHANGED <<geminiVars, disk, disk0, Files, files, outputDir, applyChanges, idx, content,
                   response, result, shown, applied>>

\* refactoredContent, err := client.RefactorFile(ctx, filename, content, ...)
\* The provider returns some text, or fails (API error, cancelled context).
RefactorFile ==
    /\ pc = "refactor"
    /\ \/ \E g \in Generated :
            /\ refactoredContent' = g
            /\ ops' = Append(ops, Op("RefactorFile", TRUE, idx))
            /\ pc' = "stage"
            /\ UNCHANGED <<disk, result>>
       \/ /\ Return(disk, Op("RefactorFile", FALSE, idx), "err")
          /\ refactoredContent' = refactoredContent
    /\ UNCHANGED <<geminiVars, disk0, Files, files, outputDir, applyChanges, idx, content,
                   response, shown, applied>>

\* isNew, outputFilename, then stagingArea.StageFile(outputFilename, ...)
Stage ==
    /\ pc = "stage"
    /\ \E fault \in Faults :
         LET filename == files[idx]
             isNew == ~fileExists(disk, filename) \/ filename = Stdin
             outputFilename == OutputFilename(filename, outputDir, isNew)
             r == StageFile(disk, Files, outputFilename, refactoredContent, isNew, fault)
         IN  IF r.err
             THEN /\ Return(r.disk, Op("StageFile", FALSE, idx), "err")
                  /\ Files' = r.Files
                  /\ idx' = idx
             ELSE /\ disk' = r.disk
                  /\ Files' = r.Files
                  /\ ops' = Append(ops, Op("StageFile", TRUE, idx))
                  /\ result' = result
                  /\ IF idx < Len(files)
                     THEN pc' = "read" /\ idx' = idx + 1
                     ELSE pc' = "diff" /\ idx' = idx
    /\ UNCHANGED <<geminiVars, disk0, files, outputDir, applyChanges, content,
                   refactoredContent, response, shown, applied>>

\* if err := stagingArea.ShowDiff(); err != nil { return ... }
Review ==
    /\ pc = "diff"
    /\ \E tool \in DiffTools :
         LET r == ShowDiff(disk, Files, tool)
         IN  /\ shown' = r.out
             /\ IF r.err
                THEN Return(disk, Op("ShowDiff", FALSE, 0), "err")
                ELSE /\ ops' = Append(ops, Op("ShowDiff", TRUE, 0))
                     /\ pc' = IF applyChanges THEN "apply" ELSE "gate"
                     /\ UNCHANGED <<disk, result>>
    /\ UNCHANGED <<geminiVars, disk0, Files, files, outputDir, applyChanges, idx, content,
                   refactoredContent, response, applied>>

\* if !applyChanges { fmt.Scanln(&response); if rejected { return nil } }
Confirm ==
    /\ pc = "gate"
    /\ \E line \in Lines :
         LET resp == Scanln(line)
         IN  /\ response' = resp
             /\ IF Rejected(resp)
                THEN Return(disk, Op("Scanln", TRUE, 0), "ok")
                ELSE /\ ops' = Append(ops, Op("Scanln", TRUE, 0))
                     /\ pc' = "apply"
                     /\ UNCHANGED <<disk, result>>
    /\ UNCHANGED <<geminiVars, disk0, Files, files, outputDir, applyChanges, idx, content,
                   refactoredContent, shown, applied>>

\* if err := stagingArea.ApplyChanges(); err != nil { return ... }; return nil
Apply ==
    /\ pc = "apply"
    /\ \E failAt \in 0..Len(Files), fault \in Faults \ {"none"} :
         LET r == ApplyChanges(disk, Files, failAt, fault)
         IN  /\ applied' = r.applied
             /\ Return(r.disk, Op("ApplyChanges", ~r.err, 0),
                       IF r.err THEN "err" ELSE "ok")
    /\ UNCHANGED <<geminiVars, disk0, Files, files, outputDir, applyChanges, idx, content,
                   refactoredContent, response, shown>>

Next ==
    \/ CreateStagingArea
    \/ ReadFile
    \/ RefactorFile
    \/ Stage
    \/ Review
    \/ Confirm
    \/ Apply

Spec == Init /\ [][Next]_vars

\* ------------------------------------------------- StagingArea, called freely
\* A caller that holds a StagingArea and calls its methods in any order with
\* any arguments: pc stays "api", ops holds the last call only, and shown and
\* applied hold what that call rendered and wrote.
SAPaths == {<<"a", "x.go">>, <<"b", "x.go">>, <<"y.go">>}

InitSA ==
    /\ disk0 \in {NewStagingArea(d) : d \in InitDisks}
    /\ NoGemini
    /\ disk0.files[<<"out", "y.go">>] = NoFile
    /\ disk0.files[<<"a", "x.go">>] = NoFile
    /\ disk = disk0
    /\ Files = << >>
    /\ files = << >>
    /\ outputDir = << >>
    /\ applyChanges = FALSE
    /\ pc = "api"
    /\ idx = 0
    /\ content = ""
    /\ refactoredContent = ""
    /\ response = ""
    /\ result = "running"
    /\ ops = << >>
    /\ shown = << >>
    /\ applied = << >>

\* The faults this caller's I/O meets: a failed write leaves the file as it
\* was (the truncating failure is met in the edit command's runs).
SAFaults == {"none", "mkdir", "open"}

CallStageFile ==
    /\ pc = "api"
    /\ Len(Files) < MaxStaged
    /\ \E p \in SAPaths, c \in Generated, isNew \in BOOLEAN, fault \in SAFaults :
         LET r == StageFile(disk, Files, p, c, isNew, fault)
         IN  /\ disk' = r.disk
             /\ Files' = r.Files
             /\ ops' = <<Op("StageFile", ~r.err, Len(r.Files))>>
    /\ shown' = << >>
    /\ applied' = << >>
    /\ UNCHANGED <<geminiVars, disk0, files, outputDir, applyChanges, pc, idx, content,
                   refactoredContent, response, result>>

CallShowDiff ==
    /\ pc = "api"
    /\ \E tool \in DiffTools :
         LET r == ShowDiff(disk, Files, tool)
         IN  /\ shown' = r.out
             /\ ops' = <<Op("ShowDiff", ~r.err, 0)>>
    /\ applied' = << >>
    /\ UNCHANGED <<geminiVars, disk, disk0, Files, files, outputDir, applyChanges, pc, idx,
                   content, refactoredContent, response, result>>

CallApplyChanges ==
    /\ pc = "api"
    /\ \E failAt \in 0..Len(Files), fault \in SAFaults \ {"none"} :
         LET r == ApplyChanges(disk, Files, failAt, fault)
         IN  /\ disk' = r.disk
             /\ applied' = r.applied
             /\ ops' = <<Op("ApplyChanges", ~r.err, failAt)>>
    /\ shown' = << >>
    /\ UNCHANGED <<geminiVars, disk0, Files, files, outputDir, applyChanges, pc, idx, content,
                   refactoredContent, response, result>>

CallCleanup ==
    /\ pc = "api"
    /\ disk' = Cleanup(disk)
    /\ ops' = <<Op("Cleanup", TRUE, 0)>>
    /\ shown' = << >>
    /\ applied' = << >>
    /\ UNCHANGED <<geminiVars, disk0, Files, files, outputDir, applyChanges, pc, idx, content,
                   refactoredContent, response, result>>

NextSA ==
    \/ CallStageFile
    \/ CallShowDiff
    \/ CallApplyChanges
    \/ CallCleanup

SpecSA == InitSA /\ [][NextSA]_vars

\* ------------------------------------------------ Gemini client, called freely
\* `llm-tool ask --provider gemini` run again and again: each run is one
\* StreamResponse call on the history file the runs before it left.  The
\* prompt of a call is tagged with the number of the completed call it would
\* be.
InitG ==
    /\ disk0 = [files |-> [p \in Paths |-> NoFile], dirs |-> {}]
    /\ disk = disk0
    /\ Files = << >>
    /\ files = << >>
    /\ outputDir = << >>
    /\ applyChanges = FALSE
    /\ pc = "gemini"
    /\ idx = 0
    /\ content = ""
    /\ refactoredContent = ""
    /\ response = ""
    /\ result = "running"
    /\ ops = << >>
    /\ shown = << >>
    /\ applied = << >>
    /\ NoGemini

CallStreamResponse ==
    /\ pc = "gemini"
    /\ completed < MaxCalls
    /\ \E recv \in RecvOutcomes, readFault \in BOOLEAN, saveFault \in HistoryFaults :
         LET r == StreamResponse(historyFile, completed + 1, recv, readFault, saveFault)
         IN  /\ historyFile' = r.file
             /\ completed' = IF r.err THEN completed ELSE completed + 1
             /\ lastCall' = IF r.err
                            THEN [kind |-> "failed", loadErr |-> FALSE,
                                  saveFault |-> "none"]
                            ELSE [kind |-> "completed", loadErr |-> r.loadErr,
                                  saveFault |-> saveFault]
    /\ UNCHANGED editVars

NextG ==
    \/ CallStreamResponse

SpecG == InitG /\ [][NextG]_vars

\* ------------------------------------------------------------------ claims
\* No original path holds anything but what it held when the run started.
OrigUnchanged == \A p \in OrigPaths : disk.files[p] = disk0.files[p]
\* The run has made a call named `name`.
HasOp(name) == \E i \in 1..Len(ops) : ops[i].op = name
\* Nothing is left of the staging directory.
StagingDirGone ==
    /\ StagingDir \notin disk.dirs
    /\ \A p \in Paths : Under(p, StagingDir) => disk.files[p] = NoFile
\* The calls a run makes up to and including a successful ShowDiff, when every
\* target was read, generated and staged without error.
StagedAndShown ==
    LET n == Len(files)
    IN  /\ Len(ops) >= 3 * n + 2
        /\ ops[1] = Op("NewStagingArea", TRUE, 0)
        /\ \A k \in 1..n :
             /\ ops[3 * k - 1] = Op("ReadFileContent", TRUE, k)
             /\ ops[3 * k] = Op("RefactorFile", TRUE, k)
             /\ ops[3 * k + 1] = Op("StageFile", TRUE, k)
        /\ ops[3 * n + 2] = Op("ShowDiff", TRUE, 0)

\* C1: in a run of the edit command, an original path is written (and
\* ApplyChanges is called) only after every target was read, generated and
\* staged without error, in order, then ShowDiff returned without error, then
\* the gate passed: --yes is set and there was no prompt, or the prompt was
\* answered "y" or "Y".  ApplyChanges is the call right after the gate.
C1_WritesOnlyAfterApproval ==
    (~OrigUnchanged \/ applied # << >> \/ HasOp("ApplyChanges")) =>
        LET g == 3 * Len(files) + 3
        IN  /\ StagedAndShown
            /\ Len(ops) >= g
            /\ IF applyChanges
               THEN ops[g].op = "ApplyChanges"
               ELSE /\ ops[g] = Op("Scanln", TRUE, 0)
                    /\ response \in {"y", "Y"}
                    /\ Len(ops) > g
                    /\ ops[g + 1].op = "ApplyChanges"
\* A run of three targets, prompted and answered "Y", that changed an original.
C1_Witness ==
    /\ pc = "done"
    /\ Len(files) = MaxFiles
    /\ ~applyChanges
    /\ response = "Y"
    /\ ~OrigUnchanged
    /\ Len(applied) = MaxFiles

\* C2: when --yes is not set and the answer at the prompt is anything but "y"
\* or "Y" (the empty line included), the run ends with no original path
\* changed, ApplyChanges never called, the result nil (success), and the
\* staging directory removed by Cleanup, the last call.
C2_RejectionIsCleanNoOp ==
    (pc = "done" /\ ~applyChanges /\ HasOp("Scanln") /\ response \notin {"y", "Y"}) =>
        /\ OrigUnchanged
        /\ applied = << >>
        /\ ~HasOp("ApplyChanges")
        /\ result = "ok"
        /\ ops[Len(ops)] = Op("Cleanup", TRUE, 0)
        /\ StagingDirGone
\* The prompt answered with an empty line, after two files were staged.
C2_Witness ==
    /\ pc = "done"
    /\ ~applyChanges
    /\ HasOp("Scanln")
    /\ response = ""
    /\ Len(Files) = 2
    /\ result = "ok"

\* C3: once NewStagingArea has succeeded, every way the run ends (a failed
\* read, provider call, stage or diff, a rejection, a failed or successful
\* apply) has called Cleanup exactly once, as its last call, and nothing is
\* left of the staging directory; while the run goes on Cleanup is not called.
C3_CleanupOnceOnEveryExit ==
    /\ (pc = "done" /\ ops[1] = Op("NewStagingArea", TRUE, 0)) =>
          /\ Cardinality({i \in 1..Len(ops) : ops[i].op = "Cleanup"}) = 1
          /\ ops[Len(ops)] = Op("Cleanup", TRUE, 0)
          /\ StagingDirGone
    /\ pc # "done" => ~HasOp("Cleanup")
\* A run that ended in a failed ApplyChanges after it had written one file.
C3_Witness ==
    /\ pc = "done"
    /\ Len(ops) > 2
    /\ ops[Len(ops) - 1] = Op("ApplyChanges", FALSE, 0)
    /\ ops[Len(ops)].op = "Cleanup"
    /\ Len(applied) = 1

\* C4: when the read, the provider call or the stage of the k-th target fails,
\* that call is the run's last but for Cleanup: the run is over with an error,
\* exactly the k-1 targets before it are staged, no call was made for a later
\* target, ShowDiff, the prompt and ApplyChanges never ran, no original path
\* changed, and the staging directory is gone.
C4_PerFileFailureAborts ==
    \A i \in 1..Len(ops) :
        (ops[i].op \in {"ReadFileContent", "RefactorFile", "StageFile"} /\ ~ops[i].ok) =>
            /\ Len(ops) = i + 1
            /\ ops[i + 1] = Op("Cleanup", TRUE, 0)
            /\ pc = "done"
            /\ result = "err"
            /\ Len(Files) = ops[i].k - 1
            /\ \A j \in 1..(i - 1) :
                 /\ ops[j].k <= ops[i].k
                 /\ ops[j].op \notin {"ShowDiff", "Scanln", "ApplyChanges"}
            /\ shown = << >>
            /\ applied = << >>
            /\ OrigUnchanged
            /\ StagingDirGone
\* The provider fails for the second of three targets.
C4_Witness ==
    /\ Len(files) = MaxFiles
    /\ \E i \in 1..Len(ops) : ops[i] = Op("RefactorFile", FALSE, 2)
    /\ Len(Files) = 1

\* What path p holds once the first n entries have been written in order:
\* the content of the last of them that targets p, else what it held at the start.
Expected(n, p) ==
    LET S == {j \in 1..n : Files[j].OriginalPath = p}
    IN  IF S = {} THEN disk0.files[p]
        ELSE Files[CHOOSE j \in S : \A h \in S : h <= j].Content

\* C5: when ApplyChanges fails at the N-th of M entries, it returns an error,
\* entries 1..N-1 are written and stay written (each original path holds what
\* the last of them targeting it wrote), and no entry after N is attempted
\* (every other path holds what it held before); the path of entry N itself
\* is as it was or truncated by the failed write.
C5_ApplyStopsAtFirstFailure ==
    (pc = "done" /\ Len(ops) >= 2 /\ ops[Len(ops) - 1] = Op("ApplyChanges", FALSE, 0)) =>
        LET N == Len(applied) + 1
        IN  /\ result = "err"
            /\ N <= Len(Files)
            /\ applied = [i \in 1..(N - 1) |-> Files[i].OriginalPath]
            /\ \A p \in OrigPaths :
                 \/ disk.files[p] = Expected(N - 1, p)
                 \/ p = Files[N].OriginalPath /\ disk.files[p] = Truncated
\* The second of three distinct entries fails: the first is written, the
\* third is not.
C5_Witness ==
    /\ pc = "done"
    /\ Len(ops) >= 2
    /\ ops[Len(ops) - 1] = Op("ApplyChanges", FALSE, 0)
    /\ Len(Files) = 3
    /\ Len(applied) = 1
    /\ Cardinality({Files[i].OriginalPath : i \in 1..3}) = 3
    /\ disk.files[Files[1].OriginalPath] = Files[1].Content
    /\ disk.files[Files[3].OriginalPath] = disk0.files[Files[3].OriginalPath]

\* The last call was an ApplyChanges that returned without error (in a run of
\* the edit command the deferred Cleanup follows it).
AppliedOK ==
    \/ pc = "api" /\ ops = <<Op("ApplyChanges", TRUE, 0)>>
    \/ pc = "done" /\ Len(ops) >= 2 /\ ops[Len(ops) - 1] = Op("ApplyChanges", TRUE, 0)
\* The last call was the ShowDiff whose renderings `shown` holds.
ShownLast ==
    \/ pc = "api" /\ ops # << >> /\ ops[1].op = "ShowDiff"
    \/ pc \in {"gate", "apply"}
\* Entry i is the last entry staged for its original path.
LastForPath(i) ==
    \A j \in (i + 1)..Len(Files) : Files[j].OriginalPath # Files[i].OriginalPath

\* C6 as stated: after a successful ApplyChanges the original path of every
\* entry with IsNew = FALSE holds exactly that entry's Content.
C6_Original ==
    AppliedOK =>
        \A i \in 1..Len(Files) :
            ~Files[i].IsNew => disk.files[Files[i].OriginalPath] = Files[i].Content
\* C6, amended: after a successful ApplyChanges the original path of every
\* entry with IsNew = FALSE that no later entry targets again holds exactly
\* that entry's Content.
C6_LastEntryForPathIsOnDisk ==
    AppliedOK =>
        \A i \in 1..Len(Files) :
            (~Files[i].IsNew /\ LastForPath(i)) =>
                disk.files[Files[i].OriginalPath] = Files[i].Content
\* One existing file staged twice with different contents, then applied: the
\* file holds the second content, which replaced "old" in full.
C6_Witness ==
    /\ AppliedOK
    /\ Len(Files) = 2
    /\ ~Files[1].IsNew /\ ~Files[2].IsNew
    /\ Files[1].OriginalPath = Files[2].OriginalPath
    /\ Files[1].Content # Files[2].Content
    /\ disk0.files[Files[2].OriginalPath] = OldContent
    /\ disk.files[Files[2].OriginalPath] = Files[2].Content

\* C7: ShowDiff renders the entries in the order they were staged: its i-th
\* rendering is of the i-th entry (its path, new-file or diff as its IsNew
\* says, a new file's body its Content), none skipped or repeated; when it
\* returns without error there is one rendering per entry, and when it fails
\* the rendering of the failing entry is the last.
C7_ShowDiffInStagingOrder ==
    ShownLast =>
        /\ Len(shown) <= Len(Files)
        /\ \A i \in 1..Len(shown) :
             /\ shown[i].path = Files[i].OriginalPath
             /\ (shown[i].kind = "new") = Files[i].IsNew
             /\ Files[i].IsNew => shown[i].plus = Files[i].Content
             /\ shown[i].kind = "failed" => i = Len(shown)
        /\ (Len(shown) = Len(Files)
               /\ (Len(shown) > 0 => shown[Len(shown)].kind # "failed"))
             = (pc # "api" \/ ops[1].ok)
\* Two entries for different paths, one new and one not, both rendered.
C7_Witness ==
    /\ pc = "api"
    /\ ops = <<Op("ShowDiff", TRUE, 0)>>
    /\ Len(Files) = 2
    /\ Len(shown) = 2
    /\ Files[1].OriginalPath # Files[2].OriginalPath
    /\ Files[1].IsNew /\ ~Files[2].IsNew

\* C8: for an entry with IsNew = TRUE ShowDiff prints the new-file marker and
\* the entry's whole Content and reads nothing from the disk, the original
\* path least of all; so a list of new entries only is always shown without
\* error, whether the originals exist or not.
C8_NewEntriesShownFromMemory ==
    ShownLast =>
        /\ \A i \in 1..Len(shown) :
             Files[i].IsNew =>
                 /\ shown[i].kind = "new"
                 /\ shown[i].plus = Files[i].Content
                 /\ shown[i].minus = NoFile
                 /\ shown[i].reads = {}
        /\ (\A i \in 1..Len(Files) : Files[i].IsNew) =>
             /\ Len(shown) = Len(Files)
             /\ pc = "api" => ops[1].ok
\* A new entry whose original path has no file, shown without error.
C8_Witness ==
    /\ pc = "api"
    /\ ops = <<Op("ShowDiff", TRUE, 0)>>
    /\ Len(Files) = 1
    /\ Files[1].IsNew
    /\ disk.files[Files[1].OriginalPath] = NoFile
    /\ Len(shown) = 1
    /\ shown[1].plus = Files[1].Content

\* Entries i and j target different paths with the same basename.
Collide(fs, i, j) ==
    /\ fs[i].OriginalPath # fs[j].OriginalPath
    /\ Base(fs[i].OriginalPath) = Base(fs[j].OriginalPath)
\* What holds in every state of C9: colliding entries share one scratch file,
\* which holds the Content of the entry staged last; a successful ApplyChanges
\* leaves in each colliding entry's own path that entry's own Content (when no
\* later entry targets the path again).
C9_State ==
    \A i \in 1..Len(Files), j \in 1..Len(Files) :
        (i < j /\ Collide(Files, i, j)) =>
            /\ Files[i].StagedPath = Files[j].StagedPath
            /\ (pc = "api" /\ ops = <<Op("StageFile", TRUE, j)>> /\ j = Len(Files)) =>
                   disk.files[Files[i].StagedPath] = Files[j].Content
            /\ AppliedOK =>
                   /\ LastForPath(i) =>
                        disk.files[Files[i].OriginalPath] = Files[i].Content
                   /\ LastForPath(j) =>
                        disk.files[Files[j].OriginalPath] = Files[j].Content
\* What holds of every step of C9: a StageFile that appends an entry colliding
\* with an earlier one leaves that earlier entry (path, Content, IsNew) as it was.
C9_Step ==
    \A i \in 1..Len(Files) :
        (Len(Files') = Len(Files) + 1 /\ Collide(Files', i, Len(Files'))) =>
            Files'[i] = Files[i]
C10_State ==
    \A i \in 1..Len(ops) :
        (pc # "api" /\ ops[i].op = "StageFile" /\ ~ops[i].ok) =>
            /\ Len(Files) = ops[i].k - 1
            /\ Len(ops) = i + 1
            /\ ~\E j \in 1..Len(ops) : ops[j].op = "StageFile" /\ ops[j].k > ops[i].k
\* What holds of every step of C10: a stage that fails leaves the list as it was.
C10_Step ==
    (\/ pc = "stage" /\ pc' = "done"
     \/ pc = "api" /\ ops' # << >> /\ ops'[1].op = "StageFile" /\ ~ops'[1].ok)
        => Files' = Files
\* C10: a StageFile that fails appends no entry and leaves the entries staged
\* before it unchanged; in a run of three targets whose second stage fails the
\* third is never staged and the list holds exactly the first entry.
C10_FailedStageAddsNothing == []C10_State /\ [][C10_Step]_vars
\* Three targets, the stage of the second fails: one entry, for the first.
C10_Witness ==
    /\ Len(files) = 3
    /\ \E i \in 1..Len(ops) : ops[i] = Op("StageFile", FALSE, 2)
    /\ Len(Files) = 1
    /\ Files[1].OriginalPath = OutputFilename(files[1], outputDir, files[1] = Stdin)

\* C11: every entry a run of the edit command stages has IsNew = TRUE exactly
\* when its OriginalPath (the destination ApplyChanges writes, under --output
\* the redirected one) holds no file when it is staged or its target is "-";
\* so ShowDiff never diffs against a destination that does not exist.
\* (No original path changes before ApplyChanges, so disk0 is the disk at
\* staging time.)
C11_IsNewMatchesDestination ==
    pc # "api" =>
        /\ \A i \in 1..Len(Files) :
             Files[i].IsNew =
                 (disk0.files[Files[i].OriginalPath] = NoFile \/ files[i] = Stdin)
        /\ \A i \in 1..Len(shown) :
             shown[i].kind # "new" => disk0.files[shown[i].path] # NoFile

\* C12: for every entry with IsNew = FALSE ShowDiff renders the difference
\* between what the entry's OriginalPath holds and that entry's own Content,
\* whatever was staged before or after it.
C12_DiffShowsOwnContent ==
    ShownLast =>
        \A i \in 1..Len(shown) :
            shown[i].kind \in {"diff", "manual"} =>
                /\ shown[i].path = Files[i].OriginalPath
                /\ shown[i].minus = disk.files[Files[i].OriginalPath]
                /\ shown[i].plus = Files[i].Content

\* C13: the targets are processed one at a time in input order.  The provider
\* call for target k is the 3k-th call of the run, made once, right after the
\* read of target k, and for k > 1 the two calls before them are the provider
\* call and the successful stage of target k-1; while the provider is called
\* for target k exactly the k-1 targets before it are staged; and the i-th
\* entry of the list is the one staged for the i-th target, with the content
\* the provider returned for it.
C13_OneAtATimeInInputOrder ==
    pc # "api" =>
        /\ \A i \in 1..Len(ops) :
             ops[i].op = "RefactorFile" =>
                 LET k == ops[i].k
                 IN  /\ i = 3 * k
                     /\ ops[i - 1] = Op("ReadFileContent", TRUE, k)
                     /\ k > 1 => /\ ops[i - 2] = Op("StageFile", TRUE, k - 1)
                                 /\ ops[i - 3] = Op("RefactorFile", TRUE, k - 1)
        /\ pc \in {"refactor", "stage"} => Len(Files) = idx - 1
        /\ Len(Files) <= Len(files)
        /\ \A i \in 1..Len(Files) :
             Files[i].OriginalPath = OutputFilename(files[i], outputDir, Files[i].IsNew)
        /\ (pc \in {"read", "diff", "gate", "apply"} /\ Files # << >>) =>
               Files[Len(Files)].Content = refactoredContent
\* Three different targets staged, for a/x.go, y.go and b/x.go in that order.
C13_Witness ==
    /\ pc = "diff"
    /\ files = << <<"a", "x.go">>, <<"y.go">>, <<"b", "x.go">> >>
    /\ outputDir = << >>
    /\ Len(Files) = 3
    /\ ops[9] = Op("RefactorFile", TRUE, 3)
    /\ Files[1].OriginalPath = <<"a", "x.go">>
    /\ Files[3].OriginalPath = <<"b", "x.go">>

TargetPath(k) == OutputFilename(files[k], outputDir, files[k] = Stdin)
\* The last write to every original path wins: after a successful
\* ApplyChanges each path holds the Content of the last entry staged for it.
LastWriterWins ==
    AppliedOK => \A p \in OrigPaths : disk.files[p] = Expected(Len(Files), p)

\* C15 as stated: the list holds one entry per processed target, no two
\* entries have the same OriginalPath, and the last write to a path wins.
C15_Original ==
    /\ Len(Files) = Cardinality({i \in 1..Len(ops) : ops[i].op = "StageFile" /\ ops[i].ok})
    /\ \A i, j \in 1..Len(Files) :
         i # j => Files[i].OriginalPath # Files[j].OriginalPath
    /\ LastWriterWins
\* C15, amended: every successful StageFile of a run appends one entry and
\* none is replaced or removed, so the list holds one entry per processed
\* target and, for each original path, as many entries as targets were
\* staged under it; after a successful ApplyChanges each path holds the
\* Content of the last entry staged for it.
C15_OneEntryPerStageLastWins ==
    /\ Len(Files) = Cardinality({i \in 1..Len(ops) : ops[i].op = "StageFile" /\ ops[i].ok})
    /\ \A p \in OrigPaths :
         Cardinality({i \in 1..Len(Files) : Files[i].OriginalPath = p})
             = Cardinality({k \in 1..Len(Files) : TargetPath(k) = p})
    /\ LastWriterWins
\* y.go staged first and third with different contents, another file between
\* them, all applied: three entries, and y.go holds the third one's content.
C15_Witness ==
    /\ AppliedOK
    /\ Len(Files) = 3
    /\ Files[1].OriginalPath = <<"y.go">>
    /\ Files[3].OriginalPath = <<"y.go">>
    /\ Files[2].OriginalPath # <<"y.go">>
    /\ Files[1].Content # Files[3].Content
    /\ disk.files[<<"y.go">>] = Files[3].Content

\* The gate of a run of the edit command has passed: ShowDiff returned without
\* error and --yes is set, or the prompt was answered "y" or "Y".
GatePassed ==
    /\ StagedAndShown
    /\ \/ applyChanges
       \/ /\ Len(ops) >= 3 * Len(files) + 3
          /\ ops[3 * Len(files) + 3].op = "Scanln"
          /\ response \in {"y", "Y"}
\* The calls of ApplyChanges the run has made.
ApplyCalls == {i \in 1..Len(ops) : ops[i].op = "ApplyChanges"}

\* C16: the decision at the gate is for the whole staging area.  A run never
\* calls ApplyChanges twice, and a run that is over after its gate passed
\* called it once; the paths it wrote are those of the first entries of the
\* list in staging order, one write per entry; when it returns without error
\* they are the paths of all the entries, one entry per target; and fewer
\* than all are written only when ApplyChanges failed or was never called (and
\* then none is).
C16_ApplyIsAllOrNothing ==
    pc # "api" =>
        /\ Cardinality(ApplyCalls) <= 1
        /\ (pc = "done" /\ GatePassed) => Cardinality(ApplyCalls) = 1
        /\ ApplyCalls # {} => GatePassed
        /\ Len(applied) <= Len(Files)
        /\ \A i \in 1..Len(applied) : applied[i] = Files[i].OriginalPath
        /\ AppliedOK => Len(applied) = Len(Files) /\ Len(Files) = Len(files)
        /\ Len(applied) < Len(Files) =>
               \/ ApplyCalls = {} /\ applied = << >> /\ OrigUnchanged
               \/ result = "err" /\ ops[Len(ops) - 1] = Op("ApplyChanges", FALSE, 0)
\* Three targets with three destinations, the prompt answered "y": all three
\* written, in staging order.
C16_Witness ==
    /\ AppliedOK
    /\ ~applyChanges
    /\ response = "y"
    /\ Len(Files) = 3
    /\ Cardinality({Files[i].OriginalPath : i \in 1..3}) = 3
    /\ applied = <<Files[1].OriginalPath, Files[2].OriginalPath, Files[3].OriginalPath>>
    /\ \A i \in 1..3 : disk.files[Files[i].OriginalPath] = Files[i].Content

\* A genuine failure to diff entry `file` on the current disk: with a diff
\* command, the coloured attempt and the plain retry both exit with a status
\* other than 0 and 1; without one, the original or the scratch file cannot
\* be read.
GenuineFailure(file, tool) ==
    IF tool # "none"
    THEN /\ diffExit(disk, file.OriginalPath, file.StagedPath, TRUE, tool) \notin {0, 1}
         /\ diffExit(disk, file.OriginalPath, file.StagedPath, FALSE, tool) \notin {0, 1}
    ELSE \/ disk.files[file.OriginalPath] = NoFile
         \/ disk.files[file.StagedPath] = NoFile

\* C17: an exit status 0 (same) or 1 (differ) of the diff command is no error.
\* Whatever diff command the machine has, displayDiff fails for an entry
\* exactly on a genuine failure, and ShowDiff fails exactly when some entry
\* with IsNew = FALSE meets one.  In what the last ShowDiff printed, a
\* rendering is a failed one only if the entry's original or scratch file is
\* missing, every diff printed is of two files that are there, and ShowDiff
\* returned an error exactly when a rendering failed.
C17_ErrorOnlyOnGenuineFailure ==
    /\ \A tool \in DiffTools :
         /\ \A i \in 1..Len(Files) :
              ~Files[i].IsNew =>
                  (displayDiff(disk, Files[i].OriginalPath, Files[i].StagedPath, tool).err
                      = GenuineFailure(Files[i], tool))
         /\ ShowDiff(disk, Files, tool).err
                = (\E i \in 1..Len(Files) : ~Files[i].IsNew /\ GenuineFailure(Files[i], tool))
    /\ (pc = "api" /\ ops # << >> /\ ops[1].op = "ShowDiff") =>
         /\ ops[1].ok = (\A i \in 1..Len(shown) : shown[i].kind # "failed")
         /\ \A i \in 1..Len(shown) :
              LET missing == \/ disk.files[Files[i].OriginalPath] = NoFile
                             \/ disk.files[Files[i].StagedPath] = NoFile
              IN  /\ shown[i].kind = "failed" => missing
                  /\ shown[i].kind \in {"diff", "manual"} => ~missing
\* ShowDiff returned without error after the diff command compared two pairs
\* of files: the first pair the same (exit 0), the second different (exit 1).
C17_Witness ==
    /\ pc = "api"
    /\ ops = <<Op("ShowDiff", TRUE, 0)>>
    /\ Len(shown) = 2
    /\ shown[1].kind = "diff" /\ shown[2].kind = "diff"
    /\ shown[1].minus = shown[1].plus
    /\ shown[2].minus # shown[2].plus

\* C18: when ApplyChanges fails at entry N, the error it returns names the
\* path that failed and the number of entries already written (N-1); stated
\* of the call the run is about to make, for every entry and every fault its
\* I/O may meet.
C18_ApplyErrorCarriesPathAndCount ==
    pc = "apply" =>
        \A failAt \in 1..Len(Files), fault \in Faults \ {"none"} :
            LET r == ApplyChanges(disk, Files, failAt, fault)
                e == ApplyError(Files, failAt, fault)
            IN  r.err =>
                    /\ Files[failAt].OriginalPath \in e.paths
                    /\ Len(r.applied) \in e.counts

\* C19: when NewStagingArea cannot create its directory the run is over at
\* once with an error: that call is its only call (no read, no provider call,
\* no stage, no ShowDiff, no prompt, no ApplyChanges, no Cleanup), nothing is
\* staged, shown or applied, there is no staging directory and the disk is as
\* it was.  And no run makes any other call before a successful
\* NewStagingArea.
C19_NoStagingAreaNoRun ==
    pc # "api" =>
        /\ (ops # << >> /\ ops[1] = Op("NewStagingArea", FALSE, 0)) =>
              /\ Len(ops) = 1
              /\ pc = "done"
              /\ result = "err"
              /\ Files = << >> /\ shown = << >> /\ applied = << >>
              /\ content = "" /\ refactoredContent = "" /\ response = ""
              /\ disk = disk0
              /\ StagingDir \notin disk.dirs
        /\ ops # << >> => ops[1].op = "NewStagingArea"
        /\ Len(ops) > 1 => ops[1].ok
\* A run of three targets that ended at the failed NewStagingArea.
C19_Witness ==
    /\ pc = "done"
    /\ ops = <<Op("NewStagingArea", FALSE, 0)>>
    /\ Len(files) = MaxFiles
    /\ result = "err"

\* What holds of every entry of the list in C20: its scratch path is the
\* entry's basename directly under the staging directory.
C20_State ==
    \A i \in 1..Len(Files) :
        /\ Under(Files[i].StagedPath, StagingDir)
        /\ Files[i].StagedPath = Join(StagingDir, Base(Files[i].OriginalPath))
\* What holds of every step in C20: the list changes only by one entry being
\* appended, and the step that appends it has written its Content to its
\* scratch path; a step whose last call is Cleanup leaves nothing of the
\* staging directory.
C20_Step ==
    /\ Files' # Files =>
          /\ Len(Files') = Len(Files) + 1
          /\ SubSeq(Files', 1, Len(Files)) = Files
          /\ StagingDir \in disk'.dirs
          /\ disk'.files[Files'[Len(Files')].StagedPath] = Files'[Len(Files')].Content
    /\ (ops' # << >> /\ ops'[Len(ops')].op = "Cleanup") => StagingDirGone'
\* C20: every entry of the list has its scratch path inside the staging
\* directory, and its scratch file was written by the StageFile call that
\* appended it, before the entry was in the list, so that no later ShowDiff or
\* ApplyChanges meets an entry whose scratch path was never written; Cleanup
\* removes every scratch file.
C20_ScratchWrittenBeforeListed == []C20_State /\ [][C20_Step]_vars
\* Two entries for a/x.go and b/x.go staged: one scratch path, under the
\* staging directory, holding the content of the second.
C20_Witness ==
    /\ pc = "api"
    /\ ops = <<Op("StageFile", TRUE, 2)>>
    /\ Files[1].OriginalPath # Files[2].OriginalPath
    /\ Files[1].StagedPath = Files[2].StagedPath
    /\ Files[1].Content # Files[2].Content
    /\ disk.files[Files[2].StagedPath] = Files[2].Content

\* What holds of every step of a caller of the StagingArea whose call is
\* Cleanup: afterwards nothing is left of the staging directory, every path
\* outside it holds what it held before, every directory outside it is still
\* there and no other has appeared, the entry list is the same, and a second
\* Cleanup would change nothing.
C21_Step ==
    (pc = "api" /\ ops' # << >> /\ ops'[1].op = "Cleanup") =>
        /\ StagingDirGone'
        /\ \A p \in Paths : ~Under(p, StagingDir) => disk'.files[p] = disk.files[p]
        /\ \A x \in Dirs \cup disk.dirs \cup disk'.dirs :
             (x # StagingDir /\ ~Under(x, StagingDir)) =>
                 ((x \in disk'.dirs) = (x \in disk.dirs))
        /\ Files' = Files
        /\ ops'[1].ok
        /\ Cleanup(disk') = disk'
\* C21: Cleanup removes the whole staging directory with every scratch file
\* and changes nothing else: every original path, applied or not, and the
\* entry list are after it as before it; a second Cleanup changes nothing.
C21_CleanupRemovesOnlyStagingDir == [][C21_Step]_vars
\* Cleanup after one entry was applied and a second staged but not applied:
\* the first path keeps the applied content, the second what it held at the
\* start, both entries are still listed and the staging directory is gone.
C21_Witness ==
    /\ pc = "api"
    /\ ops = <<Op("Cleanup", TRUE, 0)>>
    /\ Len(Files) = 2
    /\ Files[1].OriginalPath # Files[2].OriginalPath
    /\ disk0.files[Files[1].OriginalPath] # NoFile
    /\ disk.files[Files[1].OriginalPath] = Files[1].Content
    /\ disk.files[Files[2].OriginalPath] = disk0.files[Files[2].OriginalPath]
    /\ StagingDirGone

\* The step is a call of StageFile, of ShowDiff: by the edit command, or by a
\* free caller of the StagingArea.
IsStageStep ==
    \/ pc = "stage"
    \/ pc = "api" /\ ops' # << >> /\ ops'[1].op = "StageFile"
IsShowDiffStep ==
    \/ pc = "diff"
    \/ pc = "api" /\ ops' # << >> /\ ops'[1].op = "ShowDiff"
\* What holds of every step in C22.
C22_Step ==
    /\ (IsStageStep \/ IsShowDiffStep) =>
          \A p \in OrigPaths : disk'.files[p] = disk.files[p]
    /\ IsStageStep =>
          \/ Files' = Files
          \/ /\ Len(Files') = Len(Files) + 1
             /\ SubSeq(Files', 1, Len(Files)) = Files
    /\ (pc = "stage" /\ pc' # "done") =>
          LET isNew == ~fileExists(disk, files[idx]) \/ files[idx] = Stdin
          IN  Files' = Append(Files,
                  [OriginalPath |-> OutputFilename(files[idx], outputDir, isNew),
                   StagedPath |-> Files'[Len(Files')].StagedPath,
                   Content |-> refactoredContent,
                   IsNew |-> isNew])
    /\ (pc = "api" /\ IsStageStep /\ ops'[1].ok) => Len(Files') = Len(Files) + 1
    /\ (pc = "api" /\ IsShowDiffStep) => disk' = disk
    /\ ~IsStageStep => Files' = Files
\* C22: StageFile and ShowDiff change no original path, and the entry list
\* is append-only: a StageFile that succeeds adds one entry at the end, with
\* the original path, the content and the isNew it was given (in a run of the
\* edit command: the destination of the current target, what the provider
\* returned, and what RunE computed), the entries before it staying as they
\* were; ShowDiff, ApplyChanges, Cleanup and every other step leave the list
\* as it is.
C22_ListIsAppendOnly == [][C22_Step]_vars
\* One target staged twice and a third entry after them, nothing shown or
\* applied yet and no original changed.
C22_Witness ==
    /\ pc = "diff"
    /\ Len(Files) = 3
    /\ Files[1].OriginalPath = Files[2].OriginalPath
    /\ Files[1].Content # Files[2].Content
    /\ Files[3].OriginalPath # Files[1].OriginalPath
    /\ Files[3].IsNew
    /\ OrigUnchanged

\* The messages a load of the history file yields (none when the file is
\* missing or cannot be parsed).
SavedMessages == loadChatHistory(historyFile, FALSE).Messages
\* The two messages of the k-th completed call, and the last n messages of a
\* sequence.
Exchange(k) == <<ChatHistoryContent("user", <<k>>), ChatHistoryContent("model", <<k>>)>>
LastN(seq, n) == IF Len(seq) > n THEN SubSeq(seq, Len(seq) - n + 1, Len(seq)) ELSE seq
\* The messages of the first n completed calls, in order.
RECURSIVE AllMessages(_)
AllMessages(n) == IF n = 0 THEN << >> ELSE AllMessages(n - 1) \o Exchange(n)

\* C23 as stated: after any sequence of StreamResponse calls the saved
\* history is the (at most 20) most recent messages of the completed calls, in
\* order, each call's user message right before its model message.
C23_Original ==
    pc = "gemini" => SavedMessages = LastN(AllMessages(completed), HistoryLimit)
\* What holds of every state in C23: the saved history has at most 20
\* messages, in pairs of one call's user message and then its model message,
\* the pairs in the order of their calls.
C23_State ==
    LET m == SavedMessages
    IN  /\ Len(m) <= HistoryLimit
        /\ Len(m) % 2 = 0
        /\ \A i \in 1..Len(m) :
             /\ i % 2 = 1 => m[i].Role = "user" /\ m[i + 1] = ChatHistoryContent("model", m[i].Parts)
             /\ i % 2 = 0 => m[i].Role = "model"
             /\ m[i].Parts[1] \in 1..completed
             /\ i + 2 <= Len(m) => m[i].Parts[1] < m[i + 2].Parts[1]
\* What holds of every step in C23, by how the call went.
C23_Step ==
    pc = "gemini" =>
        /\ completed' = completed => historyFile' = historyFile
        /\ completed' # completed =>
              /\ completed' = completed + 1
              /\ lastCall'.kind = "completed"
              /\ lastCall'.saveFault = "open" => historyFile' = historyFile
              /\ lastCall'.saveFault = "io" => historyFile' = EmptiedFile
              /\ lastCall'.saveFault = "none" =>
                    /\ historyFile'.exists
                    /\ SavedMessages' =
                          LastN((IF lastCall'.loadErr THEN << >> ELSE SavedMessages)
                                    \o Exchange(completed'), HistoryLimit)
\* C23, amended: the saved history, as far as it can be read, holds at most 20
\* messages, in user-then-model pairs in call order.  A call that fails with a
\* receive error leaves the file as it was.  A completed call that loads and
\* saves the history without error leaves the last 20 messages of what was
\* saved followed by its own user and model message; when the load fails it
\* saves its own two messages only; when the save fails the file is as before
\* or emptied, and the call still completes.
C23_HistoryKeepsMostRecent == []C23_State /\ [][C23_Step]_vars
\* Twelve calls completed without a fault: the file holds the twenty messages
\* of the third to the twelfth.
C23_Witness ==
    /\ pc = "gemini"
    /\ completed = 12
    /\ lastCall = [kind |-> "completed", loadErr |-> FALSE, saveFault |-> "none"]
    /\ Len(SavedMessages) = HistoryLimit
    /\ SavedMessages[1] = ChatHistoryContent("user", <<3>>)
    /\ SavedMessages[HistoryLimit] = ChatHistoryContent("model", <<12>>)

====
